---- MODULE Spec2Model ----
(***************************************************************************)
(* Model of contribute/graph.py: gen_graph (build the complete and the     *)
(* desired similarity graphs, binary search for a cutoff, trim every       *)
(* cluster, connect the clusters) and trim_cluster.                        *)
(*                                                                         *)
(* Numbers.  A similarity score or a cutoff x (simi_cutoff, high, mid, low, *)
(* trial, pretrial) stands for the float x / Den, Den a power of two, so   *)
(* that every midpoint 0.5 * (a + b) the search computes is represented    *)
(* exactly.                                                                *)
(***************************************************************************)
EXTENDS Integers, FiniteSets, Sequences, TLC

\* ---------------------------------------------------------------- bounds
NumMols   == 4      \* molecules are 1..NumMols
MaxCsize  == 4      \* max_csize ranges over 1..MaxCsize
MaxC2C    == 2      \* num_c2c ranges over 1..MaxC2C
MaxNumEdges == 2    \* num_edges of a direct trim_cluster call: 1..MaxNumEdges

\* ------------------------------------------------------------- constants
Den       == 2^24           \* scores and cutoffs are multiples of 1/Den
Tolerance == 1000000        \* the loop guard's 1E-6, as its reciprocal
SlackNum  == 95             \* 0.95 = SlackNum / SlackDen
SlackDen  == 100
TrimEdges == 2              \* gen_graph trims with num_edges = 2
CompleteCutoff == 1 * Den   \* rule.Cutoff( 1 ) of the complete graph

None      == [none |-> TRUE]

Mols      == 1..NumMols
\* the similarity scores basic_rule.similarity returns: 0, 0.5 and 1
Scores    == {0, Den \div 2, Den}
Pairs(n)  == {p \in SUBSET (1..n) : Cardinality(p) = 2}
\* the values of simi_cutoff tried: 0.25 (below the score 0.5, so that the
\* search has a score to cross in both directions), 0.5, 0.75 and (out of
\* the documented range, which the code does not check) 1.25
Cutoffs   == {Den \div 4, Den \div 2, 3 * (Den \div 4), 5 * (Den \div 4)}

VARIABLES
    mcs_ids,      \* the candidate pairs (each id stands for its parent pair)
    simi,         \* basic_rule.similarity of every candidate pair
    simi_cutoff, max_csize, num_c2c,
    num_edges,    \* trim_cluster's num_edges
    pc,           \* position in gen_graph
    error,        \* the exception that left gen_graph, "" if none
    complete, desired,   \* graphs: [nodes, edges, boundary]
    clusters,     \* sequence of node sets, ascending size
    high, mid, low, trial, pretrial,
    ti,           \* index of the next cluster to trim
    unconnected_clusters,
    warned,       \* cluster indices the connector warned about
    prev          \* what an earlier run on the same candidates returned

vars == <<mcs_ids, simi, simi_cutoff, max_csize, num_c2c, num_edges, pc, error,
          complete, desired, clusters, high, mid, low, trial, pretrial, ti,
          unconnected_clusters, warned, prev>>

\* ------------------------------------------------------------ the graphs
EmptyGraph == [nodes |-> {}, edges |-> {}, boundary |-> {}]

\* the edges of g with an endpoint in ns (networkx g.edges( ns ))
EdgesAt(g, ns) == {e \in g.edges : e \cap ns # {}}

\* the edges of g with both endpoints in ns (networkx.subgraph( g, ns ))
EdgesIn(E, ns) == {e \in E : e \subseteq ns}

RECURSIVE Grow(_, _)
Grow(E, seen) ==
    LET more == seen \cup UNION {e \in E : e \cap seen # {}}
    IN  IF more = seen THEN seen ELSE Grow(E, more)

\* networkx.connected_components over node set ns and edge set E
Components(ns, E) == {Grow(E, {n}) : n \in ns}

\* connected_components putting the nodes without an edge in one component
connected_components_lumped(g) ==
    LET lone == {n \in g.nodes : EdgesAt(g, {n}) = {}}
    IN  Components(g.nodes \ lone, g.edges)
            \cup (IF lone = {} THEN {} ELSE {lone})

connected_components(g) == Components(g.nodes, g.edges)

Connected(E, ns) == \A n \in ns : ns \subseteq Grow(E, {n})

\* rule.Cutoff( cutoff ).similarity: a score below the cutoff counts as 0
Cutoff(cutoff, s) == IF s < cutoff THEN 0 ELSE s

\* create( basic_graph, mcs_ids, rule.Cutoff( cutoff ) )
create(basic_graph, ids, cutoff) ==
    LET new == {p \in ids : Cutoff(cutoff, simi[p]) > 0}
    IN  [nodes    |-> basic_graph.nodes \cup UNION new,
         edges    |-> basic_graph.edges \cup new,
         boundary |-> basic_graph.boundary]

\* basic_graph of gen_graph: the nodes all_ids and no edge
BasicGraph(ids) == [EmptyGraph EXCEPT !.nodes = UNION ids]

\* sorted( components, cmp = len( x ) - len( y ) ): the components by
\* ascending size.  The sort is stable, so components of one size stay in the
\* order connected_components enumerates them; the model takes them by least
\* member.  Nothing reads a cluster's position among its equals: the trimmer
\* visits every cluster and the connector pops the indices in any order.
Least(c) == CHOOSE x \in c : \A y \in c : x <= y

Before(c, d) ==
    \/ Cardinality(c) < Cardinality(d)
    \/ Cardinality(c) = Cardinality(d) /\ Least(c) < Least(d)

RECURSIVE SortedBySize(_)
SortedBySize(S) ==
    IF S = {} THEN <<>>
    ELSE LET c == CHOOSE x \in S : \A d \in S \ {x} : Before(x, d)
         IN  <<c>> \o SortedBySize(S \ {c})

\* sorted( networkx.connected_components( g ), cmp = ... )
Extract(g) == SortedBySize(connected_components(g))

largest == clusters[Len(clusters)]

\* ------------------------------------------------------------------ Init
\* The program does not read a molecule's name, so of the inputs that differ
\* only by renaming the molecules one is enough: the one whose scores, read
\* as the digits of a number, give the greatest.
Digit(s) == s \div (Den \div 2)

RECURSIVE KeyRow(_, _, _, _)
KeyRow(f, pi, a, b) ==
    IF a >= b THEN 0
    ELSE Digit(f[{pi[a], pi[b]}]) * 3^(((b - 1) * (b - 2)) \div 2 + (a - 1))
         + KeyRow(f, pi, a + 1, b)

RECURSIVE KeyAll(_, _, _, _)
KeyAll(f, pi, b, n) ==
    IF b > n THEN 0 ELSE KeyRow(f, pi, 1, b) + KeyAll(f, pi, b + 1, n)

Key(f, S, pi) == KeyAll(f, pi, 2, Cardinality(UNION S))

\* two cheap necessary conditions: the leading digit is the greatest digit,
\* and the digits of the last molecule's pairs, which lead the number, descend
Leading(ids, f) ==
    LET last == CHOOSE m \in UNION ids : \A k \in UNION ids : k <= m
    IN  /\ \A q \in ids : f[{last - 1, last}] >= f[q]
        /\ \A a \in 2..(last - 1) : f[{a, last}] >= f[{a - 1, last}]

Canonical(ids, f) ==
    /\ Leading(ids, f)
    /\ LET id == [m \in UNION ids |-> m]
           k0 == Key(f, ids, id)
       IN  \A pi \in Permutations(UNION ids) : k0 >= Key(f, ids, pi)

Init ==
    /\ \E n \in 2..NumMols : mcs_ids = Pairs(n)
    /\ simi \in [mcs_ids -> Scores]
    /\ Canonical(mcs_ids, simi)
    /\ simi_cutoff \in Cutoffs
    /\ max_csize \in 1..MaxCsize
    /\ num_c2c \in 1..MaxC2C
    /\ num_edges = TrimEdges
    /\ pc = "start"
    /\ error = ""
    /\ complete = EmptyGraph /\ desired = EmptyGraph
    /\ clusters = <<>>
    /\ high = 0 /\ mid = 0 /\ low = 0 /\ trial = 0 /\ pretrial = 0
    /\ ti = 0
    /\ unconnected_clusters = {}
    /\ warned = {}
    /\ prev = None

\* --------------------------------------------------------------- actions
\* gen_graph up to the test that starts the binary search, every call of
\* basic_rule.similarity returning a score
BuildGraphs ==
    /\ pc = "start"
    /\ complete' = create(BasicGraph(mcs_ids), mcs_ids, CompleteCutoff)
    /\ desired'  = create(BasicGraph(mcs_ids), mcs_ids, simi_cutoff)
    /\ clusters' = Extract(desired')
    /\ IF max_csize < Cardinality(clusters'[Len(clusters')])
       THEN /\ high' = 1 * Den
            /\ mid' = simi_cutoff
            /\ low' = simi_cutoff
            /\ trial' = 1 * Den
            /\ pretrial' = 0
            /\ pc' = "search"
       ELSE /\ pc' = "trim"
            /\ UNCHANGED <<high, mid, low, trial, pretrial>>
    /\ ti' = 1
    /\ UNCHANGED <<mcs_ids, simi, simi_cutoff, max_csize, num_c2c, num_edges,
                   error, unconnected_clusters, warned,
                   prev>>

\* basic_rule.similarity raises for a candidate pair: the loop over mcs_ids
\* has no handler, and the exception leaves gen_graph
SimilarityRaises ==
    /\ pc = "start"
    /\ mcs_ids # {}
    /\ pc' = "raised"
    /\ error' = "unknown pair"
    /\ UNCHANGED <<mcs_ids, simi, simi_cutoff, max_csize, num_c2c, num_edges,
                   complete, desired, clusters, high, mid, low, trial,
                   pretrial, ti, unconnected_clusters, warned, prev>>

\* abs( trial - pretrial ) > 1E-6.  Den / Tolerance is no integer, so for the
\* integer d = |trial - pretrial| * Den the test d / Den > 1 / Tolerance is
\* d > Den \div Tolerance.
Abs(x) == IF x < 0 THEN -x ELSE x
Apart(a, b) == Abs(a - b) > Den \div Tolerance

\* 0.5 * (a + b)
Midpoint(a, b) == (a + b) \div 2

\* RaiseTrial stepping a quarter of the way from mid to high
RaiseTrial_quarter(h, m) == m + (h - m) \div 4

\* trial = 0.5 * (high + mid), the cutoff raised
RaiseTrial(h, m) == Midpoint(h, m)

\* LowerTrial computing the raised cutoff, 0.5 * (high + mid) with high = 1
LowerTrial_raises(m, l) == Midpoint(1 * Den, m)

\* trial = 0.5 * (mid + low), the cutoff lowered
LowerTrial(m, l) == Midpoint(m, l)

\* int( max_csize * 0.95 )
SlackSize(m) == (m * SlackNum) \div SlackDen

\* one iteration of the binary search (the loop body, the rebuild included)
SearchStep ==
    /\ pc = "search"
    /\ Apart(trial, pretrial)
    /\ LET n == Cardinality(largest) IN
       /\ pretrial' = trial
       /\ IF max_csize < n
          THEN /\ trial' = RaiseTrial(high, mid)
               /\ low' = mid
               /\ mid' = trial'
               /\ high' = high
               /\ desired' = create(BasicGraph(mcs_ids), mcs_ids, trial')
               /\ clusters' = Extract(desired')
               /\ pc' = "search"
          ELSE IF SlackSize(max_csize) > n
          THEN /\ trial' = LowerTrial(mid, low)
               /\ high' = mid
               /\ mid' = trial'
               /\ low' = low
               /\ desired' = create(BasicGraph(mcs_ids), mcs_ids, trial')
               /\ clusters' = Extract(desired')
               /\ pc' = "search"
          ELSE /\ pc' = "trim"
               /\ UNCHANGED <<trial, high, mid, low, desired, clusters>>
    /\ UNCHANGED <<mcs_ids, simi, simi_cutoff, max_csize, num_c2c, num_edges,
                   error, complete, ti, unconnected_clusters, warned, prev>>

\* the loop guard fails: the search ends on the tolerance
SearchEnd ==
    /\ pc = "search"
    /\ ~Apart(trial, pretrial)
    /\ pc' = "trim"
    /\ UNCHANGED <<mcs_ids, simi, simi_cutoff, max_csize, num_c2c, num_edges,
                   error, complete, desired, clusters, high, mid, low, trial,
                   pretrial, ti, unconnected_clusters, warned, prev>>

\* ---------------------------------------------------------- trim_cluster
Min(a, b) == IF a < b THEN a ELSE b

RECURSIVE Weight(_)
Weight(F) ==
    IF F = {} THEN 0
    ELSE LET e == CHOOSE x \in F : TRUE IN simi[e] + Weight(F \ {e})

\* r[-num_edges:] of the edges at node n sorted by ascending similarity: the
\* order among equal similarities is the enumeration order of g.edges( n )
TopChoices(g, n, k) ==
    LET inc == EdgesAt(g, {n})
        m   == Min(k, Cardinality(inc))
    IN  {T \in SUBSET inc :
           /\ Cardinality(T) = m
           /\ \A a \in T, b \in inc \ T : simi[a] >= simi[b]}

\* the list edges after the first loop of trim_cluster
RECURSIVE TopEdges(_, _, _)
TopEdges(g, ns, k) ==
    IF ns = {} THEN {{}}
    ELSE LET n == CHOOSE x \in ns : TRUE
         IN  {T \cup R : T \in TopChoices(g, n, k),
                         R \in TopEdges(g, ns \ {n}, k)}

\* mst_edges with the spanning tree left out of the kept edges
mst_edges_none(ns, E) == {{}}

\* networkx.minimum_spanning_edges( sg, "reversed_similarity" ): Kruskal
\* over the edges by ascending -similarity yields, depending on the order
\* among equal weights, any spanning forest of maximum total similarity
mst_edges(ns, E) ==
    LET size    == Cardinality(ns) - Cardinality(Components(ns, E))
        forests == {F \in SUBSET E :
                      /\ Cardinality(F) = size
                      /\ Components(ns, F) = Components(ns, E)}
        totals  == {Weight(F) : F \in forests}
        best    == CHOOSE w \in totals : \A v \in totals : w >= v
    IN  {F \in forests : Weight(F) = best}

\* what trim_cluster keeps of the edges at the cluster
KeptEdges(g, cluster, k) ==
    {T \cup F : T \in TopEdges(g, cluster, k),
                F \in mst_edges(cluster, EdgesIn(g.edges, cluster))}

\* trim_cluster deleting from all of g.edges(), not from g.edges( cluster )
trim_cluster_all_edges(g, cluster, k) ==
    {LET del_edges == {e \in g.edges : e \notin keep}
     IN  [g EXCEPT !.edges = @ \ del_edges, !.boundary = @ \ del_edges] :
     keep \in KeptEdges(g, cluster, k)}

\* the graphs trim_cluster( g, cluster, k ) can leave
trim_cluster(g, cluster, k) ==
    {LET del_edges == {e \in EdgesAt(g, cluster) : e \notin keep}
     IN  [g EXCEPT !.edges = @ \ del_edges, !.boundary = @ \ del_edges] :
     keep \in KeptEdges(g, cluster, k)}

\* one iteration of the loop that trims the clusters; after the last one
\* the connector starts with every cluster index unconnected
TrimStep ==
    /\ pc = "trim"
    /\ desired' \in trim_cluster(desired, clusters[ti], num_edges)
    /\ ti' = ti + 1
    /\ IF ti = Len(clusters)
       THEN /\ pc' = "connect"
            /\ unconnected_clusters' = 1..Len(clusters)
       ELSE UNCHANGED <<pc, unconnected_clusters>>
    /\ UNCHANGED <<mcs_ids, simi, simi_cutoff, max_csize, num_c2c, num_edges,
                   error, complete, clusters, high, mid, low, trial, pretrial,
                   warned, prev>>

\* ------------------------------------------------------------- connector
\* networkx.edge_boundary( g, a, b ): the edges from a node of a to one of b
edge_boundary(g, a, b) ==
    {e \in g.edges : e \cap a # {} /\ e \cap b # {}}

\* c2c_edges of the popped cluster i
c2c_edges(i) ==
    UNION {edge_boundary(complete, clusters[i], clusters[j]) :
           j \in (1..Len(clusters)) \ {i}}

\* TopC2C with the range of k one too long
TopC2C_one_more(E, num) ==
    {T \in SUBSET E : Cardinality(T) = Min(num + 1, Cardinality(E))}

\* the num edges at the end of c2c_edges sorted by ascending similarity
TopC2C(E, num) ==
    {T \in SUBSET E :
       /\ Cardinality(T) = num
       /\ \A a \in T, b \in E \ T : simi[a] >= simi[b]}

AddBoundary(g, T) ==
    [nodes    |-> g.nodes \cup UNION T,
     edges    |-> g.edges \cup T,
     boundary |-> g.boundary \cup T]

\* one iteration of the connector loop
ConnectStep ==
    /\ pc = "connect"
    /\ \E i \in unconnected_clusters :
         LET c2c  == c2c_edges(i)
             rest == unconnected_clusters \ {i}
         IN
         IF c2c = {}
         THEN \* the warning; the loop goes on
              /\ warned' = warned \cup {i}
              /\ desired' = desired
              /\ unconnected_clusters' = rest
              /\ pc' = IF rest = {} THEN "done" ELSE "connect"
              /\ error' = error
         ELSE IF Cardinality(c2c) < num_c2c
         THEN \* c2c_edges[k] raises IndexError once the list is used up
              /\ desired' = AddBoundary(desired, c2c)
              /\ unconnected_clusters' = rest
              /\ pc' = "raised"
              /\ error' = "IndexError"
              /\ warned' = warned
         ELSE \E T \in TopC2C(c2c, num_c2c) :
              LET connected_clusters ==
                     {e \in rest : \E edge \in T : edge \cap clusters[e] # {}}
              IN
              /\ desired' = AddBoundary(desired, T)
              /\ unconnected_clusters' = rest \ connected_clusters
              /\ pc' = IF rest \ connected_clusters = {}
                       THEN "done" ELSE "connect"
              /\ error' = error
              /\ warned' = warned
    /\ UNCHANGED <<mcs_ids, simi, simi_cutoff, max_csize, num_c2c, num_edges,
                   complete, clusters, high, mid, low, trial, pretrial, ti,
                   prev>>

\* the cutoff of the desired graph the search ended with
Searched == high # 0
FinalCutoff == IF Searched THEN trial ELSE simi_cutoff

\* ------------------------------------------------- a second run, same input
Result == [desired |-> desired, clusters |-> clusters,
           cutoff |-> FinalCutoff, max_csize |-> max_csize]

Restart(m) ==
    /\ prev' = Result
    /\ max_csize' = m
    /\ pc' = "start"
    /\ error' = ""
    /\ complete' = EmptyGraph /\ desired' = EmptyGraph
    /\ clusters' = <<>>
    /\ high' = 0 /\ mid' = 0 /\ low' = 0 /\ trial' = 0 /\ pretrial' = 0
    /\ ti' = 0
    /\ unconnected_clusters' = {}
    /\ warned' = {}
    /\ UNCHANGED <<mcs_ids, simi, simi_cutoff, num_c2c, num_edges>>

\* gen_graph has returned and is called again with the same arguments
Rerun ==
    /\ pc = "done"
    /\ prev = None
    /\ Restart(max_csize)

\* the search has ended and is started again for a max_csize no smaller
SearchAgain ==
    /\ pc = "trim"
    /\ prev = None
    /\ \E m \in max_csize..MaxCsize : Restart(m)

\* ------------------------------------------- a direct call of trim_cluster
\* g is the graph of the pairs of positive score, cluster one of its
\* connected components
InitTrim ==
    /\ \E n \in 2..NumMols : mcs_ids = Pairs(n)
    /\ simi \in [mcs_ids -> Scores]
    /\ Canonical(mcs_ids, simi)
    /\ desired = create(BasicGraph(mcs_ids), mcs_ids, 0)
    /\ \E c \in connected_components(desired) : clusters = <<c>>
    /\ num_edges \in 1..MaxNumEdges
    /\ pc = "call"
    /\ ti = 1
    /\ simi_cutoff = 0 /\ max_csize = 0 /\ num_c2c = 0
    /\ error = ""
    /\ complete = EmptyGraph
    /\ high = 0 /\ mid = 0 /\ low = 0 /\ trial = 0 /\ pretrial = 0
    /\ unconnected_clusters = {}
    /\ warned = {}
    /\ prev = None

TrimCall ==
    /\ pc = "call"
    /\ desired' \in trim_cluster(desired, clusters[ti], num_edges)
    /\ ti' = ti + 1
    /\ pc' = "returned"
    /\ UNCHANGED <<mcs_ids, simi, simi_cutoff, max_csize, num_c2c, num_edges,
                   error, complete, clusters, high, mid, low, trial, pretrial,
                   unconnected_clusters, warned, prev>>

\* -------------------------------------------------------- specifications
\* one run of gen_graph
Next ==
    \/ BuildGraphs \/ SimilarityRaises \/ SearchStep \/ SearchEnd
    \/ TrimStep \/ ConnectStep

Spec == Init /\ [][Next]_vars

\* two runs of gen_graph on the same arguments
NextTwice == Next \/ Rerun

SpecTwice == Init /\ [][NextTwice]_vars

\* gen_graph up to the end of the binary search (num_c2c is not read)
InitSearch == Init /\ num_c2c = 1

NextSearch == BuildGraphs \/ SimilarityRaises \/ SearchStep \/ SearchEnd

SpecSearch == InitSearch /\ [][NextSearch]_vars

\* a step of gen_graph while it builds or searches: every such step moves
\* pc or pretrial, and while pc is "start" or "search" one is possible
Runs ==
    /\ pc \in {"start", "search"}
    /\ pc' \in {"search", "trim", "raised"}
    /\ pretrial' \in {pretrial, trial}

\* the same, run as the interpreter runs it: while gen_graph has a next
\* statement it executes it
SpecSearchFair == SpecSearch /\ WF_<<pc, pretrial>>(Runs)

\* the binary search for a max_csize and then for one no smaller
NextSearchTwice == NextSearch \/ SearchAgain

SpecSearchTwice == InitSearch /\ [][NextSearchTwice]_vars

\* trim_cluster called on a graph and one of its components
SpecTrim == InitTrim /\ [][TrimCall]_vars

\* ================================================================ claims
\* the graph a direct trim_cluster call was given
GivenGraph == create(BasicGraph(mcs_ids), mcs_ids, 0)

\* C1: after trim_cluster( g, cluster, k ) on a connected component of g,
\* for every k >= 1 and all similarity values, every node of the cluster
\* still reaches every other node of the cluster through edges left in g.
C1_TrimKeepsConnected ==
    \A i \in 1..Len(clusters) :
        i < ti => Connected(desired.edges, clusters[i])

\* C1 witness: a whole graph of NumMols molecules was trimmed to one edge
\* per node, and edges were removed.
C1_Witness ==
    /\ pc = "returned"
    /\ num_edges = 1
    /\ clusters[1] = Mols
    /\ desired.edges # GivenGraph.edges
    /\ \E n \in Mols : Cardinality(EdgesAt(desired, {n})) > 1

\* the cutoffs the configuration documents: simi_cutoff in (0, 1]
InRange == simi_cutoff > 0 /\ simi_cutoff <= 1 * Den

\* what gen_graph hands its caller besides ( desired, clusters ): nothing
\* but an exception reports anything
Signalled == error # ""

\* C2: when the threshold search has finished and gen_graph returns, every
\* connected component of desired has size <= max_csize, or the run has
\* signalled to the caller that the bound was not met.
C2_BoundMetOrSignalled ==
    pc = "done" => Cardinality(largest) <= max_csize \/ Signalled

\* C3: complete has an edge for every candidate pair of positive similarity
\* (so every edge of desired before connection, and every cross-cluster
\* pair of positive similarity, is an edge of complete).
C3_CompleteHasPositivePairs ==
    pc \in {"search", "trim", "connect", "done"} =>
        /\ \A p \in mcs_ids : simi[p] > 0 => p \in complete.edges
        /\ (desired.edges \ desired.boundary) \subseteq complete.edges

\* the candidate pairs of positive similarity
PositivePairs == {p \in mcs_ids : simi[p] > 0}

\* C4: for every cluster of the returned partition that some candidate pair
\* of positive similarity joins to a node of another cluster, the returned
\* desired has a boundary edge at a node of that cluster.
C4_BoundaryEdgeAtEveryCluster ==
    (pc = "done" /\ InRange) =>
        \A i \in 1..Len(clusters) :
            (\E p \in PositivePairs : Cardinality(p \cap clusters[i]) = 1) =>
                \E e \in desired.boundary : e \cap clusters[i] # {}

\* C5: when the connector loop has ended with the unconnected set empty and
\* the candidate pairs of positive similarity connect all nodes, every
\* cluster is reachable from every other in the returned desired.
C5_AllClustersReachable ==
    (/\ pc = "done" /\ InRange
     /\ unconnected_clusters = {}
     /\ Connected(PositivePairs, UNION mcs_ids)) =>
        Connected(desired.edges, UNION mcs_ids)

\* C6: an iteration of the connector loop adds at most num_c2c edges with
\* boundary = True, each with one endpoint in the popped cluster and the
\* other in a different cluster.
C6_Iteration ==
    pc = "connect" =>
        LET new == desired'.boundary \ desired.boundary
        IN  /\ Cardinality(new) <= num_c2c
            /\ new \subseteq desired'.edges
            /\ \E i \in unconnected_clusters \ unconnected_clusters' :
                   \A e \in new : Cardinality(e \cap clusters[i]) = 1

C6_AtMostNumC2C == [][C6_Iteration]_vars

\* C6 witness: the connector has added num_c2c = 2 boundary edges for one
\* popped cluster and the loop has ended.
C6_Witness ==
    /\ pc = "done"
    /\ num_c2c = 2
    /\ Cardinality(desired.boundary) = 2
    /\ Cardinality(UNION desired.boundary) = 3

\* the clusters of a sorted list, as a set
Partition(cs) == {cs[i] : i \in 1..Len(cs)}

\* C7: two runs of gen_graph on the same candidate pairs, similarity values,
\* simi_cutoff, max_csize and num_c2c return the same cluster partition and
\* the same edge set of desired, whichever index the connector pops and in
\* whichever order the trimmer and the connector meet edges of equal
\* similarity.
C7_SameResult ==
    (pc = "done" /\ prev # None /\ InRange) =>
        /\ Partition(prev.clusters) = Partition(clusters)
        /\ prev.desired.edges = desired.edges

\* an isolated node of g: no edge of g ends at it
Isolated(g) == {n \in g.nodes : EdgesAt(g, {n}) = {}}

\* C8: at every extraction in gen_graph, the first and the one after each
\* step of the threshold search, the clusters are pairwise disjoint and
\* non-empty, their union is every molecule of a candidate pair, and a node
\* with no edge in desired is a cluster of its own.
C8_ClustersPartitionNodes ==
    pc \in {"search", "trim"} =>
        /\ \A i \in 1..Len(clusters) : clusters[i] # {}
        /\ \A i, j \in 1..Len(clusters) :
               i # j => clusters[i] \cap clusters[j] = {}
        /\ UNION Partition(clusters) = UNION mcs_ids
        /\ \A n \in UNION mcs_ids :
               EdgesAt(desired, {n}) = {} => {n} \in Partition(clusters)

\* C8 witness: a step of the search has raised the cutoff and the new
\* extraction has an isolated molecule beside a cluster of several.
C8_Witness ==
    /\ pc = "search"
    /\ trial > simi_cutoff /\ trial < 1 * Den
    /\ Isolated(desired) # {}
    /\ Cardinality(largest) > 1
    /\ Len(clusters) < Cardinality(UNION mcs_ids)

\* C9: for the same candidate pairs, similarity values and simi_cutoff, the
\* cutoff the threshold search ends at for a max_csize M2 is never higher
\* than the one it ends at for a max_csize M1 <= M2.
C9_LargerBoundNoHigherCutoff ==
    (pc = "trim" /\ prev # None) =>
        /\ prev.max_csize <= max_csize
        /\ FinalCutoff <= prev.cutoff

\* C9 witness: both bounds made the search run, and the larger bound ended
\* it at a cutoff strictly between simi_cutoff and the smaller bound's.
C9_Witness ==
    /\ pc = "trim" /\ prev # None
    /\ Searched
    /\ prev.max_csize < max_csize
    /\ simi_cutoff < FinalCutoff
    /\ FinalCutoff < prev.cutoff

\* C10: when rule.similarity fails for a candidate pair while the graph is
\* built, the pair counts as similarity 0, the other pairs are still
\* processed and gen_graph returns a graph: the failure never ends the run.
C10_FailureSkipsPair ==
    error = "unknown pair" =>
        /\ pc # "raised"
        /\ desired.nodes = UNION mcs_ids

\* the clusters the connector can pop that have some boundary edges in
\* complete, but fewer than num_c2c
ShortOfEdges ==
    {i \in unconnected_clusters :
        /\ c2c_edges(i) # {}
        /\ Cardinality(c2c_edges(i)) < num_c2c}

\* C11: when the popped cluster has at least one but fewer than num_c2c
\* boundary edges in complete, the connector adds all of them to desired as
\* boundary edges and the run goes on to completion: no error ends it.
C11_Iteration ==
    (pc = "connect" /\ unconnected_clusters # {}) =>
        \A i \in ShortOfEdges \ unconnected_clusters' :
            /\ c2c_edges(i) \subseteq desired'.boundary
            /\ pc' \in {"connect", "done"}
            /\ error' = ""

C11_FewerEdgesAllAdded == [][C11_Iteration]_vars

\* abs( trial - pretrial ), the distance between successive trial cutoffs
Distance == Abs(trial - pretrial)

\* an iteration of the search loop that ends with a new trial cutoff
C12_Step ==
    (pc = "search" /\ pc' = "search") =>
        /\ Abs(trial' - pretrial') < Distance
        /\ pretrial # 0 => 2 * Abs(trial' - pretrial') = Distance

\* the search is running or has run
C12_Bounds ==
    (pc \in {"search", "trim"} /\ Searched) =>
        /\ low <= mid /\ mid <= high
        /\ simi_cutoff <= low /\ high <= 1 * Den
        /\ simi_cutoff <= trial /\ trial <= 1 * Den

\* C12: the threshold search ends for every input, also when no cutoff puts
\* the largest cluster inside the slack band: each step halves the distance
\* between successive trial cutoffs until it is within the 1E-6 tolerance,
\* and every trial cutoff is in [simi_cutoff, 1] with low <= mid <= high.
C12_SearchTerminates ==
    /\ <>(pc \notin {"start", "search"})
    /\ [][C12_Step]_vars
    /\ []C12_Bounds

\* C12 witness: the search was ended by the tolerance alone, the largest
\* cluster still above max_csize, after both raising and lowering steps
\* could not find a cutoff in the band.
C12_Witness ==
    /\ pc = "trim" /\ Searched
    /\ ~Apart(trial, pretrial)
    /\ Cardinality(largest) > max_csize
    /\ simi_cutoff < low /\ low < mid /\ mid < high
    /\ high < 1 * Den

\* C13: at a step of the threshold search with largest cluster size n, if
\* n > max_csize then low = mid and the new trial is the midpoint of high
\* and mid; if n < 0.95 * max_csize then high = mid and the new trial is the
\* midpoint of mid and low; the step stops the search as converged only when
\* 0.95 * max_csize <= n <= max_csize (for max_csize = 5, n = 4 lowers the
\* cutoff and only n = 5 is accepted).
C13_Step ==
    (pc = "search" /\ Apart(trial, pretrial)) =>
        LET n == Cardinality(largest)
        IN  /\ n > max_csize =>
                   /\ low' = mid
                   /\ trial' = Midpoint(high, mid)
                   /\ pc' = "search"
            /\ n * SlackDen < SlackNum * max_csize =>
                   /\ high' = mid
                   /\ trial' = Midpoint(mid, low)
                   /\ pc' = "search"
            /\ pc' = "trim" =>
                   /\ SlackNum * max_csize <= n * SlackDen
                   /\ n <= max_csize

C13_StepRule == [][C13_Step]_vars

\* F is a spanning tree of the nodes ns in the edges E, and of maximum total
\* similarity: no edge left out of F is more similar than an edge of F on
\* the path joining its two ends
MaxSpanningTree(F, ns, E) ==
    /\ F \subseteq E
    /\ Cardinality(F) = Cardinality(ns) - 1
    /\ Connected(F, ns)
    /\ \A e \in E \ F : \A f \in F :
           (\E a \in e : ~(e \subseteq Grow(F \ {f}, {a}))) =>
               simi[f] >= simi[e]

\* C14: after trim_cluster( g, cluster, k ) with k >= 1, the edges of g
\* inside the cluster are exactly the k most similar edges at each node of
\* the cluster together with the edges of a maximum-similarity spanning tree
\* of the cluster's subgraph; the nodes of g and the edges with no end in
\* the cluster are as before, and a singleton cluster changes nothing.
C14_TrimKeepsTopAndTree ==
    pc = "returned" =>
        LET cluster == clusters[1]
            given   == EdgesIn(GivenGraph.edges, cluster)
            kept    == EdgesIn(desired.edges, cluster)
        IN  /\ desired.nodes = GivenGraph.nodes
            /\ desired.edges \subseteq GivenGraph.edges
            /\ \A e \in GivenGraph.edges :
                   e \cap cluster = {} => e \in desired.edges
            /\ Cardinality(cluster) = 1 => desired = GivenGraph
            /\ \E T \in TopEdges(GivenGraph, cluster, num_edges) :
                   /\ T \subseteq kept
                   /\ \E F \in SUBSET kept :
                          /\ MaxSpanningTree(F, cluster, given)
                          /\ kept = T \cup F

\* C14 witness: a cluster of four or more was trimmed to one edge per node;
\* edges went, and an edge stayed that is not the most similar one at either
\* of its ends (a spanning-tree edge).
C14_Witness ==
    /\ pc = "returned"
    /\ num_edges = 1
    /\ Cardinality(clusters[1]) >= 4
    /\ desired.edges # GivenGraph.edges
    /\ \E e \in desired.edges :
           \A n \in e : \E d \in EdgesAt(GivenGraph, {n}) : simi[d] > simi[e]
====
